---- MODULE Spec2Model ----
(***************************************************************************)
(* rust-ai-tool: the Python binding layer (src/bindings/python_api.py) and *)
(* the fix-application engine it drives across the CLI / HTTP boundary.    *)
(*                                                                         *)
(* The binding layer (RustAiTool, RustAiToolClient) is modelled from its   *)
(* source.  The engine (the rust-ai-tool binary) is not part of the Python *)
(* source; it is modelled from the design document (sections 3 to 7).      *)
(***************************************************************************)
EXTENDS Integers, Sequences, FiniteSets, TLC

\* ------------------------------------------------------------------------
\* Bounds
\* ------------------------------------------------------------------------

\* number of project files (paths are 1..NumFiles, ordered as paths sort)
NumFiles == 2

\* largest number of edits in a FixSet
MaxEdits == 2

\* an apply call is started only while every project file has at most
\* MaxLen lines (insertions make files grow without limit otherwise)
MaxLen == 2

\* number of names in the temporary directory
NumTmp == 2

\* ------------------------------------------------------------------------
\* Data model (design document, section 3)
\* ------------------------------------------------------------------------

None == "none"

Paths == 1..NumFiles

\* the content every project file had when the fixes were produced
RefContent == <<"a", "b">>

\* line ranges [start, end) an edit may carry; <<1, 1>> is an insertion
Spans == {<<0, 1>>, <<1, 1>>, <<0, 2>>}

\* the replacement line of the i-th edit of a FixSet (one distinct line each)
ReplacementLine(i) == <<"r1", "r2", "r3", "r4">>[i]

\* Edit: file_path, span, original_text, replacement_text, edit_id
Edit(i, f, sp) ==
    [edit_id          |-> i,
     file_path        |-> f,
     start            |-> sp[1],
     end              |-> sp[2],
     original_text    |-> SubSeq(RefContent, sp[1] + 1, sp[2]),
     replacement_text |-> <<ReplacementLine(i)>>]

\* FixSet: an ordered collection of Edits, in its serialized form (section
\* 6): grouped by file path, each file's edits in their order
Grouped(c) == \A i \in 1..(Len(c) - 1) : c[i][1] <= c[i + 1][1]

FixSets ==
    UNION { { [i \in 1..n |-> Edit(i, c[i][1], c[i][2])] :
                c \in { d \in [1..n -> Paths \X Spans] : Grouped(d) } } :
            n \in 0..MaxEdits }

\* the files a FixSet touches
Touched(fs) == { fs[i].file_path : i \in DOMAIN fs }

\* the touched files in path order
RECURSIVE SortedPaths(_)
SortedPaths(S) ==
    IF S = {} THEN <<>>
    ELSE LET m == CHOOSE x \in S : \A y \in S : x <= y
         IN  <<m>> \o SortedPaths(S \ {m})

\* ------------------------------------------------------------------------
\* Conflict Detector (design document, section 4.2)
\* ------------------------------------------------------------------------

EditsOf(fs, f) == { i \in DOMAIN fs : fs[i].file_path = f }

\* sort key: resolved start offset, ties in FixSet order
Before(fs, i, j) ==
    \/ fs[i].start < fs[j].start
    \/ fs[i].start = fs[j].start /\ i < j

\* the edits of file f sorted by start offset (indices into the FixSet)
SortedEdits(fs, f) ==
    LET S == EditsOf(fs, f)
        Rank(i) == Cardinality({ j \in S : Before(fs, j, i) }) + 1
    IN  [p \in 1..Cardinality(S) |-> CHOOSE i \in S : Rank(i) = p]

\* a detector that compares the start offsets of adjacent edits
OverlapConflictsByStart(fs, f) ==
    LET se == SortedEdits(fs, f)
    IN  { <<"OverlapConflict", se[p], se[p + 1]>> :
            p \in { q \in 1..(Len(se) - 1) : fs[se[q]].start > fs[se[q + 1]].start } }

\* adjacent pairs of the sorted edits with edit[i].end > edit[i+1].start
OverlapConflicts(fs, f) ==
    LET se == SortedEdits(fs, f)
    IN  { <<"OverlapConflict", se[p], se[p + 1]>> :
            p \in { q \in 1..(Len(se) - 1) : fs[se[q]].end > fs[se[q + 1]].start } }

\* original_text no longer matches the content at the span
IsStale(content, e) ==
    \/ e.end > Len(content)
    \/ SubSeq(content, e.start + 1, e.end) # e.original_text

StaleEdits(fs, f, content) ==
    { <<"StaleEdit", i, i>> : i \in { j \in EditsOf(fs, f) : IsStale(content, fs[j]) } }

DetectConflicts(fs, f, content) ==
    OverlapConflicts(fs, f) \cup StaleEdits(fs, f, content)

\* ------------------------------------------------------------------------
\* Validator (design document, section 4.3)
\* ------------------------------------------------------------------------

\* in-memory dry-apply: walk the sorted edits front to back, copying the
\* text between edits and each edit's replacement
RECURSIVE DryWalk(_, _, _, _, _)
DryWalk(content, fs, se, p, cursor) ==
    IF p > Len(se)
    THEN SubSeq(content, cursor + 1, Len(content))
    ELSE LET e == fs[se[p]]
         IN  SubSeq(content, cursor + 1, e.start) \o e.replacement_text
               \o DryWalk(content, fs, se, p + 1, e.end)

DryApply(fs, f, content) == DryWalk(content, fs, SortedEdits(fs, f), 1, 0)

\* validate(snapshot, fixset) -> ValidationReport
Validate(snapshot, fs) ==
    LET issues == [f \in Paths |-> DetectConflicts(fs, f, snapshot[f])]
        ok     == \A f \in Paths : issues[f] = {}
    IN  [issues |-> issues, is_applicable |-> ok]

\* step (3) of validate: the post-edit content of every file, not written
DryResult(snapshot, fs) == [f \in Paths |-> DryApply(fs, f, snapshot[f])]

\* ------------------------------------------------------------------------
\* Apply Engine helpers (design document, sections 4.4 and 4.5)
\* ------------------------------------------------------------------------

\* the content written to a file: the file's edits spliced in from the last
\* to the first, so that the offsets of the edits still to come stay valid
RECURSIVE Splice(_, _, _, _)
Splice(content, fs, se, p) ==
    IF p = 0 THEN content
    ELSE LET e == fs[se[p]]
         IN  Splice(SubSeq(content, 1, e.start) \o e.replacement_text
                      \o SubSeq(content, e.end + 1, Len(content)),
                    fs, se, p - 1)

\* a splice that walks the edits from the first to the last, with the
\* offsets of the original content
RECURSIVE SpliceForward(_, _, _, _)
SpliceForward(content, fs, se, p) ==
    IF p > Len(se) THEN content
    ELSE LET e == fs[se[p]]
         IN  SpliceForward(SubSeq(content, 1, e.start) \o e.replacement_text
                             \o SubSeq(content, e.end + 1, Len(content)),
                           fs, se, p + 1)

MutateFileForward(fs, f, content) ==
    SpliceForward(content, fs, SortedEdits(fs, f), 1)

MutateFile(fs, f, content) ==
    LET se == SortedEdits(fs, f) IN Splice(content, fs, se, Len(se))

\* per-file status of a FixSet the Validator rejected
SkippedStatus(rep, f) ==
    IF \E c \in rep.issues[f] : c[1] = "OverlapConflict" THEN "skipped-conflict"
    ELSE IF rep.issues[f] # {} THEN "skipped-stale"
    ELSE "untouched"

\* begin_backup: the full content of every touched file
BeginBackup(fs, disk) ==
    [taken |-> TRUE,
     store |-> [f \in Paths |-> IF f \in Touched(fs) THEN disk[f] ELSE <<>>]]

NoBackup == [taken |-> FALSE, store |-> [f \in Paths |-> <<>>]]

\* restore: rewrite the given files from the record, best effort; the
\* files in failed keep what they hold
Restore(record, disk, which, failed) ==
    [f \in Paths |-> IF f \in which \ failed THEN record.store[f] ELSE disk[f]]

\* the aggregate states of one apply operation
ApplyStates ==
    {"Pending", "Validating", "BackingUp", "Mutating",
     "Committed", "RolledBack", "Partial"}

ApplyTerminal == {"Committed", "RolledBack", "Partial"}

\* the states in which the binary has finished and is about to exit
EngineTerminal ==
    ApplyTerminal \cup {"Reported", "Failed", "ExternalOk", "ExternalFailed"}

\* exit status of the binary: success, partial failure, hard failure
ExitCode(state, rep) ==
    CASE state = "Committed"      -> 0
      [] state = "Reported"       -> IF rep.is_applicable THEN 0 ELSE 1
      [] state = "ExternalOk"     -> 0
      [] state = "RolledBack"     -> 1
      [] state = "Partial"        -> 1
      [] state = "ExternalFailed" -> 1
      [] OTHER                    -> 2

\* ------------------------------------------------------------------------
\* Binding layer: values (src/bindings/python_api.py)
\* ------------------------------------------------------------------------

\* _find_rust_binary: potential_paths, in order
PotentialPaths ==
    <<"target/release/rust-ai-tool", "target/release/rust-ai-tool.exe",
      "target/debug/rust-ai-tool", "target/debug/rust-ai-tool.exe">>

\* where "which rust-ai-tool" finds the binary when it is on PATH
WhichPath == "/usr/local/bin/rust-ai-tool"

\* the default of _find_rust_binary: the bare name
BareName == "rust-ai-tool"

\* a rust_binary_path a caller may pass
ExplicitPath == "/opt/rust-ai-tool"

\* self.config_path
ConfigPath == ".rust-ai-tool.toml"

\* the outcome of subprocess.run(["which", "rust-ai-tool"], check=True):
\* "found", "notfound" (CalledProcessError), "nowhich" (FileNotFoundError)
WhichOutcomes == {"found", "notfound", "nowhich"}

\* _find_rust_binary on a filesystem where the paths in existing exist
FindRustBinary(existing, which) ==
    IF \E i \in 1..Len(PotentialPaths) : PotentialPaths[i] \in existing
    THEN PotentialPaths[CHOOSE i \in 1..Len(PotentialPaths) :
                          /\ PotentialPaths[i] \in existing
                          /\ \A j \in 1..(i - 1) : PotentialPaths[j] \notin existing]
    ELSE IF which = "found" THEN WhichPath
    ELSE BareName

\* __init__: rust_binary_path or self._find_rust_binary()
ResolveBinary(explicit, existing, which) ==
    IF explicit # "" THEN explicit ELSE FindRustBinary(existing, which)

\* __init__: the check that the binary exists
Construct(path, existing) ==
    [state |-> IF path \in existing THEN "constructed" ELSE "FileNotFoundError",
     path  |-> path]

\* project paths a caller may pass: the project on disk, and a path that
\* names no project
ProjectPaths == {"proj", "missing"}

\* names tempfile.NamedTemporaryFile may pick
TmpName(i) == <<"/tmp/t1.json", "/tmp/t2.json", "/tmp/t3.json", "/tmp/t4.json">>[i]

TmpNames == { TmpName(i) : i \in 1..NumTmp }

\* json.dump / json.loads: a text is JSON holding a value, or is not JSON
JsonDump(v) == [json |-> TRUE, value |-> v]

NotJson == [json |-> FALSE, value |-> <<>>]

\* the fixes argument: a dictionary, or a string already holding JSON text
FixesKinds == {"dict", "str"}

\* what the method writes into the temporary file (isinstance branch)
FixesText(kind, fixes) ==
    IF kind = "dict" THEN JsonDump(fixes) ELSE [json |-> TRUE, value |-> fixes]

\* the temporary directory is a set of files, each a name and a text
TmpExists(dir, name) == \E t \in dir : t.name = name

TmpText(dir, name) == (CHOOSE t \in dir : t.name = name).text

Unlink(dir, name) == { t \in dir : t.name # name }

\* _run_command: the command line
RunCommandLine(binary, args) == <<binary, "--config", ConfigPath>> \o args

\* the argument lists the methods build
AnalyzeArgs(project_path, output_format) ==
    <<"analyze", project_path, "--output", output_format>>

\* validate_fixes that passes the subcommand of apply_fixes
ValidateArgsAsApply(project_path, fixes_path) ==
    <<"apply", project_path, "--fixes", fixes_path>>

ValidateArgs(project_path, fixes_path) ==
    <<"validate", project_path, "--fixes", fixes_path>>

\* apply_fixes that never appends "--backup"
ApplyArgsNoBackup(project_path, fixes_path, create_backup) ==
    <<"apply", project_path, "--fixes", fixes_path>>

ApplyArgs(project_path, fixes_path, create_backup) ==
    <<"apply", project_path, "--fixes", fixes_path>>
        \o (IF create_backup THEN <<"--backup">> ELSE <<>>)

GenerateArgs(description, output_dir, name) ==
    <<"generate", "--description", description, "--output", output_dir,
      "--name", name>>

CreatePrArgs(owner, repo, branch, title, fixes_path) ==
    <<"github", "create-pr", "--owner", owner, "--repo", repo,
      "--branch", branch, "--title", title, "--fixes", fixes_path>>

AnalyzeRepoArgs(owner, repo, branch) ==
    <<"github", "analyze", "--owner", owner, "--repo", repo, "--branch", branch>>

\* RustAiToolClient: the request _make_request sends
NoRequest ==
    [method |-> "", endpoint |-> "", keys |-> {}, project_path |-> "",
     fixes |-> <<>>, create_backup |-> FALSE]

ClientAnalyzeRequest(project_path) ==
    [method |-> "POST", endpoint |-> "/api/analyze", keys |-> {"project_path"},
     project_path |-> project_path, fixes |-> <<>>, create_backup |-> FALSE]

ClientValidateRequest(project_path, fixes) ==
    [method |-> "POST", endpoint |-> "/api/validate",
     keys |-> {"project_path", "fixes"},
     project_path |-> project_path, fixes |-> fixes, create_backup |-> FALSE]

\* apply_fixes of the client that always asks for a backup
ClientApplyRequestAlwaysBackup(project_path, fixes, create_backup) ==
    [method |-> "POST", endpoint |-> "/api/apply",
     keys |-> {"project_path", "fixes", "create_backup"},
     project_path |-> project_path, fixes |-> fixes, create_backup |-> TRUE]

ClientApplyRequest(project_path, fixes, create_backup) ==
    [method |-> "POST", endpoint |-> "/api/apply",
     keys |-> {"project_path", "fixes", "create_backup"},
     project_path |-> project_path, fixes |-> fixes,
     create_backup |-> create_backup]

ClientGenerateRequest ==
    [method |-> "POST", endpoint |-> "/api/generate",
     keys |-> {"description", "output_dir", "name"},
     project_path |-> "", fixes |-> <<>>, create_backup |-> FALSE]

\* ------------------------------------------------------------------------
\* The command / request boundary (design document, section 6)
\* ------------------------------------------------------------------------

\* the value following an option on the command line, "" when absent
OptionValue(argv, opt) ==
    IF \E i \in 1..(Len(argv) - 1) : argv[i] = opt
    THEN argv[(CHOOSE i \in 1..(Len(argv) - 1) : argv[i] = opt) + 1]
    ELSE ""

HasFlag(argv, flag) == \E i \in 1..Len(argv) : argv[i] = flag

Subcommand(argv) ==
    IF argv[4] = "github" THEN "github" ELSE argv[4]

\* the request the binary decodes from its command line and the fixes file
CliRequest(argv, dir) ==
    LET sub  == Subcommand(argv)
        path == OptionValue(argv, "--fixes")
        ok   == sub \in {"validate", "apply"} => /\ TmpExists(dir, path)
                                                  /\ TmpText(dir, path).json
    IN  [op            |-> sub,
         project_path  |-> IF sub \in {"analyze", "validate", "apply"}
                           THEN argv[5] ELSE "",
         readable      |-> ok,
         fixes         |-> IF sub \in {"validate", "apply"} /\ ok
                           THEN TmpText(dir, path).value ELSE <<>>,
         create_backup |-> HasFlag(argv, "--backup")]

\* the request the API server decodes from the JSON body
HttpRequest(req) ==
    LET sub == CASE req.endpoint = "/api/analyze"  -> "analyze"
                 [] req.endpoint = "/api/validate" -> "validate"
                 [] req.endpoint = "/api/apply"    -> "apply"
                 [] OTHER                          -> "generate"
    IN  [op            |-> sub,
         project_path  |-> req.project_path,
         readable      |-> TRUE,
         fixes         |-> req.fixes,
         create_backup |-> "create_backup" \in req.keys /\ req.create_backup]

EngineOps == {"validate", "apply"}

\* the state a run starts in: a missing project or unreadable fixes is a
\* hard failure (the operation could not start); analyze, generate and
\* github are not engine operations
StartState(req) ==
    IF req.op \notin EngineOps THEN "External"
    ELSE IF req.project_path = "proj" /\ req.readable THEN "Pending"
    ELSE "Failed"

NoEngineRequest ==
    [op |-> "", project_path |-> "", readable |-> TRUE, fixes |-> <<>>,
     create_backup |-> FALSE]

\* ------------------------------------------------------------------------
\* State
\* ------------------------------------------------------------------------

VARIABLES
    fixset,     \* the FixSet the caller holds and passes as fixes
    files,      \* the project on disk: path -> lines
    tmp,        \* the temporary directory: set of [name, text]
    pc,         \* the caller's position: "idle", "running" (binary), "http"
    call,       \* the binding-layer call in progress and its arguments
    fixesPath,  \* fixes_path of the call in progress, "" when it has none
    cmd,        \* the command line of the process in progress
    httpReq,    \* the HTTP request in flight
    ret,        \* how the last call ended: a value returned, or what it raised
    engState,   \* the engine's state (section 4.5), "Idle" between runs
    request,    \* the request the engine decoded
    snapshot,   \* ProjectSnapshot taken at validation start
    report,     \* ValidationReport of this run
    backup,     \* BackupRecord of this apply operation
    written,    \* files this apply operation has written (mutation only)
    perFile,    \* ApplyResult: per-file status
    lastVal,    \* the last standalone validation of the disk as it is now
    env,        \* what __init__ sees: the paths that exist, which, the argument
    tool        \* the RustAiTool object: not yet made, constructed, or raised

vars ==
    <<fixset, files, tmp, pc, call, fixesPath, cmd, httpReq, ret, engState,
      request, snapshot, report, backup, written, perFile, lastVal, env, tool>>

ctorVars == <<env, tool>>

wrapperVars == <<pc, call, fixesPath, cmd, httpReq, ret, tmp>>

engineVars == <<engState, request, snapshot, report, backup, written, perFile>>

NoCall ==
    [api |-> "", op |-> "", project_path |-> "",
     create_backup |-> FALSE, output_format |-> ""]

NoSnapshot == [f \in Paths |-> <<>>]

NoReport == [issues |-> [f \in Paths |-> {}], is_applicable |-> TRUE]

NoStatus == [f \in Paths |-> "untouched"]

\* lastVal before any validation, and once the disk has changed since
NoValidation ==
    [valid |-> FALSE, again |-> FALSE, snap |-> NoSnapshot, report |-> NoReport]

\* the outcome of a method: a value returned, or an exception raised with
\* the exit code and the message it carries
Returned == [kind |-> "value", code |-> 0, msg |-> ""]

Raised(kind, code, msg) == [kind |-> kind, code |-> code, msg |-> msg]

\* ret: the outcome, with what the process did (its exit status, -1 when no
\* process ran, and whether its stderr was empty) and the API called
Observed(o, api, exit, stderrEmpty) ==
    [kind |-> o.kind, code |-> o.code, msg |-> o.msg, api |-> api,
     exit |-> exit, stderrEmpty |-> exit > 0 /\ stderrEmpty]

NoReturn == Observed([kind |-> "none", code |-> 0, msg |-> ""], "", -1, FALSE)

EngineReset ==
    /\ engState' = "Idle"
    /\ request' = NoEngineRequest
    /\ snapshot' = NoSnapshot
    /\ report' = NoReport
    /\ backup' = NoBackup
    /\ written' = {}
    /\ perFile' = NoStatus

\* nothing is in progress: no call, no process, no request
Quiescent ==
    /\ files = [f \in Paths |-> RefContent]
    /\ tmp = {}
    /\ pc = "idle"
    /\ call = NoCall
    /\ fixesPath = ""
    /\ cmd = <<>>
    /\ httpReq = NoRequest
    /\ ret = NoReturn
    /\ engState = "Idle"
    /\ request = NoEngineRequest
    /\ snapshot = NoSnapshot
    /\ report = NoReport
    /\ backup = NoBackup
    /\ written = {}
    /\ perFile = NoStatus
    /\ lastVal = NoValidation

\* the state after RustAiTool() in a checkout with a release build
Init ==
    /\ fixset \in FixSets
    /\ Quiescent
    /\ env = [existing |-> {PotentialPaths[1]}, atCtor |-> {PotentialPaths[1]},
              which |-> "notfound", explicit |-> ""]
    /\ tool = Construct(ResolveBinary(env.explicit, env.existing, env.which),
                        env.existing)

\* ------------------------------------------------------------------------
\* RustAiTool: a method up to the start of the binary
\* ------------------------------------------------------------------------

\* the process starts: the engine decodes its command line
Spawn(c, argv, dir, path) ==
    /\ tool.state = "constructed"
    /\ ret = NoReturn
    /\ pc' = "running"
    /\ call' = c
    /\ fixesPath' = path
    /\ cmd' = argv
    /\ ret' = NoReturn
    /\ request' = CliRequest(argv, dir)
    /\ engState' = StartState(request')
    /\ lastVal' = IF c.op = "validate_fixes" THEN lastVal ELSE NoValidation
    /\ UNCHANGED <<fixset, files, httpReq, snapshot, report, backup, written,
                   perFile, env, tool>>

\* the name NamedTemporaryFile picks: one no file has (names are
\* interchangeable, so the first free one stands for any), "" when none is
FreshName(dir) ==
    IF \E i \in 1..NumTmp : ~TmpExists(dir, TmpName(i))
    THEN TmpName(CHOOSE i \in 1..NumTmp :
                   /\ ~TmpExists(dir, TmpName(i))
                   /\ \A j \in 1..(i - 1) : TmpExists(dir, TmpName(j)))
    ELSE ""

\* an apply is started only on files of bounded length
Bounded == \A f \in Paths : Len(files[f]) <= MaxLen

\* the body of "with tempfile.NamedTemporaryFile(..., delete=False) as f"
\* followed by the start of _run_command; args[p] is the argument list the
\* method builds when fixes_path is p
WithFixesFile(c, kind, args) ==
    /\ pc = "idle"
    /\ ret = NoReturn
    /\ tool.state = "constructed"
    /\ \/ \* NamedTemporaryFile raises: no file was created
          /\ ret' = Observed(Raised("OSError", 0, ""), "tool", -1, FALSE)
          /\ UNCHANGED <<fixset, files, tmp, pc, call, fixesPath, cmd, httpReq,
                         lastVal, env, tool>>
          /\ UNCHANGED engineVars
       \/ \E name \in {FreshName(tmp)} \ {""} :
            /\ \/ \* json.dump / f.write raises inside the with block: the
                  \* file is closed, and fixes_path is never bound
                  /\ tmp' = tmp \cup {[name |-> name, text |-> NotJson]}
                  /\ ret' = Observed(Raised("TypeError", 0, ""), "tool", -1, FALSE)
                  /\ UNCHANGED <<fixset, files, pc, call, fixesPath, cmd,
                                 httpReq, lastVal, env, tool>>
                  /\ UNCHANGED engineVars
               \/ \* the fixes are written and the file is closed
                  /\ tmp' = tmp \cup {[name |-> name,
                                       text |-> FixesText(kind, fixset)]}
                  /\ Spawn(c, RunCommandLine(tool.path, args[name]), tmp', name)

analyze_project(project_path, output_format) ==
    /\ pc = "idle"
    /\ tmp' = tmp
    /\ Spawn([NoCall EXCEPT !.api = "tool", !.op = "analyze_project",
                            !.project_path = project_path,
                            !.output_format = output_format],
             RunCommandLine(tool.path, AnalyzeArgs(project_path, output_format)), tmp, "")

validate_fixes(project_path, kind) ==
    LET args == [fixes_path \in TmpNames |->
                    ValidateArgs(project_path, fixes_path)]
    IN  WithFixesFile([NoCall EXCEPT !.api = "tool", !.op = "validate_fixes",
                                     !.project_path = project_path],
                      kind, args)

apply_fixes(project_path, kind, create_backup) ==
    LET args == [fixes_path \in TmpNames |->
                    ApplyArgs(project_path, fixes_path, create_backup)]
    IN  /\ Bounded
        /\ WithFixesFile([NoCall EXCEPT !.api = "tool", !.op = "apply_fixes",
                                        !.project_path = project_path,
                                        !.create_backup = create_backup],
                         kind, args)

generate_project ==
    /\ pc = "idle"
    /\ tmp' = tmp
    /\ Spawn([NoCall EXCEPT !.api = "tool", !.op = "generate_project"],
             RunCommandLine(tool.path, GenerateArgs("a tool", "out", "name")), tmp, "")

create_github_pr(kind) ==
    LET args == [fixes_path \in TmpNames |->
                    CreatePrArgs("owner", "repo", "branch", "title", fixes_path)]
    IN  WithFixesFile([NoCall EXCEPT !.api = "tool", !.op = "create_github_pr"],
                      kind, args)

analyze_github_repo ==
    /\ pc = "idle"
    /\ tmp' = tmp
    /\ Spawn([NoCall EXCEPT !.api = "tool", !.op = "analyze_github_repo"],
             RunCommandLine(tool.path, AnalyzeRepoArgs("owner", "repo", "main")), tmp, "")

\* ------------------------------------------------------------------------
\* The engine (design document, sections 4.3 to 4.5)
\* ------------------------------------------------------------------------


\* the project is snapshotted (fresh content) and validation starts
EngBegin ==
    /\ engState = "Pending"
    /\ engState' = "Validating"
    /\ snapshot' = files
    /\ UNCHANGED <<fixset, files, lastVal, request, report, backup, written,
                   perFile>>
    /\ UNCHANGED wrapperVars
    /\ UNCHANGED ctorVars

\* analyze, generate, github: outside the engine; they succeed or fail
EngExternal ==
    /\ engState = "External"
    /\ \/ engState' = "ExternalOk"
       \/ engState' = "ExternalFailed"
    /\ UNCHANGED <<fixset, files, lastVal, request, snapshot, report, backup,
                   written, perFile>>
    /\ UNCHANGED wrapperVars
    /\ UNCHANGED ctorVars

\* the Validator runs on the snapshot; validate reports, apply goes on to
\* the backup or is rejected as a whole
EngValidate ==
    /\ engState = "Validating"
    /\ report' = Validate(snapshot, request.fixes)
    /\ \/ /\ request.op = "validate"
          /\ engState' = "Reported"
          /\ lastVal' = [valid  |-> TRUE,
                         again  |-> lastVal.valid /\ lastVal.snap = snapshot,
                         snap   |-> snapshot,
                         report |-> report']
          /\ perFile' = perFile
       \/ /\ request.op = "apply"
          /\ report'.is_applicable
          /\ engState' = "BackingUp"
          /\ UNCHANGED <<lastVal, perFile>>
       \/ /\ request.op = "apply"
          /\ ~report'.is_applicable
          /\ engState' = "RolledBack"
          /\ perFile' = [f \in Paths |-> SkippedStatus(report', f)]
          /\ lastVal' = lastVal
    /\ UNCHANGED <<fixset, files, request, snapshot, backup, written>>
    /\ UNCHANGED wrapperVars
    /\ UNCHANGED ctorVars

\* Backup Manager: every touched file is read before any mutation; an
\* unreadable file aborts the operation
EngBackup ==
    /\ engState = "BackingUp"
    /\ \/ /\ request.create_backup
          /\ backup' = BeginBackup(request.fixes, files)
          /\ engState' = "Mutating"
          /\ perFile' = perFile
       \/ /\ request.create_backup
          /\ \E f \in Touched(request.fixes) :
                perFile' = [perFile EXCEPT ![f] = "failed-io"]
          /\ engState' = "RolledBack"
          /\ backup' = backup
       \/ /\ ~request.create_backup
          /\ engState' = "Mutating"
          /\ UNCHANGED <<backup, perFile>>
    /\ UNCHANGED <<fixset, files, lastVal, request, snapshot, report, written>>
    /\ UNCHANGED wrapperVars
    /\ UNCHANGED ctorVars

\* the touched files still to be written, and the next one in path order
Remaining == Touched(request.fixes) \ written

NextFile == SortedPaths(Remaining)[1]

\* one file is written with all its edits (atomically: a failed write
\* leaves the file as it was)
EngMutate ==
    /\ engState = "Mutating"
    /\ Remaining # {}
    /\ files' = [files EXCEPT
                   ![NextFile] = MutateFile(request.fixes, NextFile, files[NextFile])]
    /\ written' = written \cup {NextFile}
    /\ perFile' = [perFile EXCEPT ![NextFile] = "applied"]
    /\ lastVal' = NoValidation
    /\ UNCHANGED <<fixset, engState, request, snapshot, report, backup>>
    /\ UNCHANGED wrapperVars
    /\ UNCHANGED ctorVars

\* the write of the next file fails: mutation halts, and if a backup was
\* taken the files already written are restored, best effort
EngMutateFails ==
    /\ engState = "Mutating"
    /\ Remaining # {}
    /\ engState' = "Partial"
    /\ IF backup.taken
       THEN \E failed \in SUBSET written :
              /\ files' = Restore(backup, files, written, failed)
              /\ perFile' = [f \in Paths |->
                               IF f = NextFile THEN "failed-io"
                               ELSE IF f \in failed THEN "restore-failed"
                               ELSE IF f \in written THEN "rolled-back"
                               ELSE perFile[f]]
       ELSE /\ files' = files
            /\ perFile' = [perFile EXCEPT ![NextFile] = "failed-io"]
    /\ lastVal' = IF files' = files THEN lastVal ELSE NoValidation
    /\ UNCHANGED <<fixset, request, snapshot, report, backup, written>>
    /\ UNCHANGED wrapperVars
    /\ UNCHANGED ctorVars

\* every touched file is written
EngCommit ==
    /\ engState = "Mutating"
    /\ Remaining = {}
    /\ engState' = "Committed"
    /\ UNCHANGED <<fixset, files, lastVal, request, snapshot, report, backup,
                   written, perFile>>
    /\ UNCHANGED wrapperVars
    /\ UNCHANGED ctorVars

EngineStep ==
    \/ EngBegin
    \/ EngExternal
    \/ EngValidate
    \/ EngBackup
    \/ EngMutate
    \/ EngMutateFails
    \/ EngCommit

\* ------------------------------------------------------------------------
\* RustAiTool: a method from the exit of the binary
\* ------------------------------------------------------------------------

\* _run_command without check=True: the output whatever the exit status
RunCommandNoCheck(exit, stderrEmpty) == Returned

\* _run_command: subprocess.run(..., check=True)
RunCommand(exit, stderrEmpty) ==
    IF exit = 0
    THEN Returned
    ELSE Raised("RuntimeError", exit, IF stderrEmpty THEN "stdout" ELSE "stderr")

\* what the method does with the output of _run_command
ParseOutput(c, r, parses) ==
    IF r.kind # "value" THEN r
    ELSE IF c.op = "analyze_project" /\ c.output_format # "json" THEN r
    ELSE IF parses THEN r
    ELSE Raised("JSONDecodeError", 0, "")

\* a finally clause that removes every file of the temporary directory
FinallyRemoveAll(dir, path) == IF path = "" THEN dir ELSE {}

\* the finally clause of the methods that made a fixes file
Finally(dir, path) == IF path = "" THEN dir ELSE Unlink(dir, path)

ToolReturn ==
    /\ pc = "running"
    /\ engState \in EngineTerminal
    /\ \E parses \in BOOLEAN, stderrEmpty \in BOOLEAN :
          ret' = Observed(ParseOutput(call,
                                      RunCommand(ExitCode(engState, report),
                                                 stderrEmpty),
                                      parses),
                          "tool", ExitCode(engState, report), stderrEmpty)
    /\ tmp' = Finally(tmp, fixesPath)
    /\ pc' = "idle"
    /\ call' = NoCall
    /\ fixesPath' = ""
    /\ cmd' = <<>>
    /\ EngineReset
    /\ UNCHANGED <<fixset, files, httpReq, lastVal, env, tool>>

\* ------------------------------------------------------------------------
\* RustAiToolClient
\* ------------------------------------------------------------------------

\* _make_request: the request is sent and the server starts on it
MakeRequest(c, req) ==
    /\ pc = "idle"
    /\ ret = NoReturn
    /\ pc' = "http"
    /\ call' = c
    /\ httpReq' = req
    /\ ret' = NoReturn
    /\ request' = HttpRequest(req)
    /\ engState' = StartState(request')
    /\ lastVal' = IF c.op = "validate_fixes" THEN lastVal ELSE NoValidation
    /\ UNCHANGED <<fixset, files, tmp, fixesPath, cmd, snapshot, report, backup,
                   written, perFile, env, tool>>

client_analyze_project(project_path) ==
    MakeRequest([NoCall EXCEPT !.api = "client", !.op = "analyze_project",
                               !.project_path = project_path],
                ClientAnalyzeRequest(project_path))

client_validate_fixes(project_path) ==
    MakeRequest([NoCall EXCEPT !.api = "client", !.op = "validate_fixes",
                               !.project_path = project_path],
                ClientValidateRequest(project_path, fixset))

client_apply_fixes(project_path, create_backup) ==
    /\ Bounded
    /\ MakeRequest([NoCall EXCEPT !.api = "client", !.op = "apply_fixes",
                                  !.project_path = project_path,
                                  !.create_backup = create_backup],
                   ClientApplyRequest(project_path, fixset, create_backup))

client_generate_project ==
    MakeRequest([NoCall EXCEPT !.api = "client", !.op = "generate_project"],
                ClientGenerateRequest)

\* response.raise_for_status(); return response.json()
MakeRequestResult(exit, parses) ==
    IF exit # 0 THEN Raised("HTTPError", exit, "")
    ELSE IF parses THEN Returned
    ELSE Raised("JSONDecodeError", 0, "")

ClientReturn ==
    /\ pc = "http"
    /\ engState \in EngineTerminal
    /\ \E parses \in BOOLEAN :
          ret' = Observed(MakeRequestResult(ExitCode(engState, report), parses),
                          "client", ExitCode(engState, report), FALSE)
    /\ pc' = "idle"
    /\ call' = NoCall
    /\ httpReq' = NoRequest
    /\ EngineReset
    /\ UNCHANGED <<fixset, files, tmp, fixesPath, cmd, lastVal, env, tool>>

\* ------------------------------------------------------------------------
\* Specification
\* ------------------------------------------------------------------------

\* the caller takes the value or the exception of the call and goes on
CallerResumes ==
    /\ pc = "idle"
    /\ ret # NoReturn
    /\ ret' = NoReturn
    /\ UNCHANGED <<fixset, files, tmp, pc, call, fixesPath, cmd, httpReq,
                   lastVal, env, tool>>
    /\ UNCHANGED engineVars

ToolCall ==
    \/ \E p \in {"proj"}, o \in {"json", "markdown"} : analyze_project(p, o)
    \/ \E p \in ProjectPaths, k \in FixesKinds : validate_fixes(p, k)
    \/ \E p \in ProjectPaths, k \in FixesKinds, b \in BOOLEAN : apply_fixes(p, k, b)
    \/ generate_project
    \/ \E k \in FixesKinds : create_github_pr(k)
    \/ analyze_github_repo

ClientCall ==
    \/ \E p \in {"proj"} : client_analyze_project(p)
    \/ \E p \in ProjectPaths : client_validate_fixes(p)
    \/ \E p \in ProjectPaths, b \in BOOLEAN : client_apply_fixes(p, b)
    \/ client_generate_project

Next ==
    \/ ToolCall
    \/ ToolReturn
    \/ ClientCall
    \/ ClientReturn
    \/ CallerResumes
    \/ EngineStep

Spec == Init /\ [][Next]_vars

\* ------------------------------------------------------------------------
\* Construction of RustAiTool on any filesystem
\* ------------------------------------------------------------------------

AllPaths ==
    { PotentialPaths[i] : i \in 1..Len(PotentialPaths) }
        \cup {WhichPath, BareName, ExplicitPath}

\* which finds the binary exactly when it is on PATH
Envs ==
    { e \in [existing : SUBSET AllPaths, atCtor : {{}}, which : WhichOutcomes,
             explicit : {"", ExplicitPath}] :
        /\ e.which = "found" => WhichPath \in e.existing
        /\ e.which = "notfound" => WhichPath \notin e.existing }

InitCtor ==
    /\ fixset = <<>>
    /\ Quiescent
    /\ env \in Envs
    /\ tool = [state |-> "new", path |-> ""]

\* RustAiTool(rust_binary_path)
NewRustAiTool ==
    /\ tool.state = "new"
    /\ tool' = Construct(ResolveBinary(env.explicit, env.existing, env.which),
                         env.existing)
    /\ env' = [env EXCEPT !.atCtor = env.existing]
    /\ UNCHANGED <<fixset, files, lastVal>>
    /\ UNCHANGED wrapperVars
    /\ UNCHANGED engineVars

\* a method of the constructed object reaches _run_command
CtorRunCommand ==
    /\ tool.state = "constructed"
    /\ cmd = <<>>
    /\ cmd' = RunCommandLine(tool.path, AnalyzeRepoArgs("owner", "repo", "main"))
    /\ UNCHANGED <<fixset, files, lastVal, env, tool, pc, call, fixesPath,
                   httpReq, ret, tmp>>
    /\ UNCHANGED engineVars

\* the filesystem changes after construction
PathRemoved ==
    /\ tool.state # "new"
    /\ \E p \in env.existing : env' = [env EXCEPT !.existing = @ \ {p}]
    /\ UNCHANGED <<fixset, files, lastVal, tool>>
    /\ UNCHANGED wrapperVars
    /\ UNCHANGED engineVars

NextCtor ==
    \/ NewRustAiTool
    \/ CtorRunCommand
    \/ PathRemoved

SpecCtor == InitCtor /\ [][NextCtor]_vars

\* ------------------------------------------------------------------------
\* C10
\* ------------------------------------------------------------------------

\* the binary path auto-detection is said to pick
C10_Picked ==
    IF PotentialPaths[1] \in env.atCtor THEN PotentialPaths[1]
    ELSE IF PotentialPaths[2] \in env.atCtor THEN PotentialPaths[2]
    ELSE IF PotentialPaths[3] \in env.atCtor THEN PotentialPaths[3]
    ELSE IF PotentialPaths[4] \in env.atCtor THEN PotentialPaths[4]
    ELSE IF env.which = "found" THEN WhichPath
    ELSE BareName

\* construction succeeds only when the resolved path exists at construction
\* time; otherwise FileNotFoundError, and no command is ever run
C10_ExistsOrRaises ==
    /\ tool.state = "constructed" => tool.path \in env.atCtor
    /\ tool.state = "FileNotFoundError" => tool.path \notin env.atCtor /\ cmd = <<>>

\* with no explicit path the resolved path is the auto-detected one
C10_AutoDetect ==
    (tool.state # "new" /\ env.explicit = "") => tool.path = C10_Picked

\* construction with the bare-name default succeeds
C10_DefaultSucceeds ==
    (tool.state # "new" /\ env.explicit = "" /\ C10_Picked = BareName)
        => tool.state = "constructed"

\* C10: constructing RustAiTool succeeds only when the resolved binary path
\* exists at construction time, otherwise FileNotFoundError is raised and no
\* command can ever be run; with no explicit path auto-detection picks the
\* first existing potential path, else the PATH lookup result, else the bare
\* name, and construction with that default succeeds.
C10_Claim ==
    /\ C10_ExistsOrRaises
    /\ C10_AutoDetect
    /\ C10_DefaultSucceeds

\* the binary and the server run to completion, and calls return
FairSpec ==
    Spec /\ WF_vars(EngineStep) /\ WF_vars(ToolReturn) /\ WF_vars(ClientReturn)

\* ------------------------------------------------------------------------
\* C1
\* ------------------------------------------------------------------------

\* an apply operation in which the write of a file has failed (a failed-io
\* status past the backup stage; a backup failure leaves no backup taken)
WriteFailed ==
    /\ request.op = "apply"
    /\ \E f \in Paths : perFile[f] = "failed-io"
    /\ backup.taken \/ ~request.create_backup

\* C1 as stated: if the write of file k fails, then when apply returns the
\* files 1..k-1 hold exactly their pre-apply content, the files k..n have
\* never been written, and the aggregate status is Partial.
C1_RollbackComplete ==
    WriteFailed =>
         /\ \A f \in written : files[f] = snapshot[f]
         /\ \A f \in Remaining : files[f] = snapshot[f] /\ perFile[f] # "applied"
         /\ engState = "Partial"

\* C1 amended: if the write of file k fails, the files k..n have never been
\* written and the status is Partial; when the caller asked for a backup,
\* every file of 1..k-1 whose restore did not fail holds its pre-apply
\* content and the others are reported restore-failed; when the caller asked
\* for no backup, the files 1..k-1 keep their post-edit content.
C1_RollbackWithBackup ==
    WriteFailed =>
         /\ engState = "Partial"
         /\ \A f \in Remaining : files[f] = snapshot[f] /\ perFile[f] # "applied"
         /\ call.create_backup =>
              \A f \in written :
                 \/ files[f] = snapshot[f] /\ perFile[f] = "rolled-back"
                 \/ perFile[f] = "restore-failed"
         /\ ~call.create_backup =>
              \A f \in written :
                 files[f] = DryApply(request.fixes, f, snapshot[f])

\* the write of the second file failed and the first, already written, is
\* back to its pre-apply content
C1_Witness ==
    /\ WriteFailed
    /\ call.create_backup
    /\ written # {}
    /\ Remaining # {}
    /\ \A f \in written : perFile[f] = "rolled-back" /\ files[f] = snapshot[f]

\* ------------------------------------------------------------------------
\* C2
\* ------------------------------------------------------------------------

\* two edits on the same file whose spans share a position
Overlaps(e1, e2) ==
    /\ e1.file_path = e2.file_path
    /\ e1.start < e2.end
    /\ e2.start < e1.end

HasOverlap(fs) ==
    \E i \in DOMAIN fs, j \in DOMAIN fs : i # j /\ Overlaps(fs[i], fs[j])

\* C2: for every FixSet in which two edits on the same file overlap,
\* validate returns is_applicable = false, and an apply of it (one that
\* could start) ends in RolledBack with no project file written at any
\* point of the operation.
C2_OverlapRejected ==
    HasOverlap(fixset) =>
        /\ (request.op = "validate" /\ engState = "Reported")
              => ~report.is_applicable
        /\ (request.op = "apply" /\ engState \in ApplyStates) =>
              /\ written = {}
              /\ engState # "Pending" => files = snapshot
              /\ engState \in {"Pending", "Validating", "RolledBack"}
              /\ engState = "RolledBack" =>
                    \E f \in Paths : perFile[f] = "skipped-conflict"

\* an apply of a FixSet with an overlap has ended, RolledBack
C2_Witness ==
    /\ HasOverlap(fixset)
    /\ request.op = "apply"
    /\ engState = "RolledBack"
    /\ files = snapshot

\* ------------------------------------------------------------------------
\* C3
\* ------------------------------------------------------------------------

\* the transitions of one apply operation
ApplyEdges ==
    {<<"Pending", "Validating">>,
     <<"Validating", "BackingUp">>, <<"Validating", "RolledBack">>,
     <<"BackingUp", "Mutating">>, <<"BackingUp", "RolledBack">>,
     <<"Mutating", "Committed">>, <<"Mutating", "Partial">>}

ApplyInProgress == request.op = "apply" /\ engState \in ApplyStates

\* the backup of every touched file is complete
BackupComplete ==
    /\ backup.taken
    /\ \A f \in Touched(fixset) : backup.store[f] = snapshot[f]

\* every step of an apply operation follows an edge; the project changes
\* only in Mutating, after the validation succeeded and, if the caller asked
\* for a backup, after the backup completed; a terminal state is only left
\* by the end of the run
C3_Step ==
    /\ (ApplyInProgress /\ engState' # engState /\ engState' # "Idle")
          => <<engState, engState'>> \in ApplyEdges
    /\ (ApplyInProgress /\ files' # files) =>
          /\ engState = "Mutating"
          /\ report.is_applicable
          /\ report = Validate(snapshot, fixset)
          /\ call.create_backup => BackupComplete
    /\ (ApplyInProgress /\ engState \in ApplyTerminal /\ engState' # engState)
          => engState' = "Idle" /\ files' = files

\* a backup failure leads to RolledBack with zero mutations
C3_BackupFailure ==
    (ApplyInProgress /\ request.create_backup /\ ~backup.taken)
        => /\ written = {}
           /\ engState \in {"Pending", "Validating", "BackingUp", "RolledBack"}
           /\ engState # "Pending" => files = snapshot

\* C3: every apply operation moves only along Pending -> Validating ->
\* Backing Up -> Mutating -> {Committed, RolledBack, Partial}; no file is
\* mutated before validation has succeeded and, when create_backup is set,
\* before the backup of every touched file has completed; a backup failure
\* leads to RolledBack with zero mutations; Committed, RolledBack and Partial
\* are terminal, and every operation eventually reaches one of them.
C3_StateMachine ==
    /\ [][C3_Step]_vars
    /\ [](C3_BackupFailure)
    /\ [](ApplyInProgress => <>(engState \in ApplyTerminal))

\* an apply with a backup has written a file
C3_Witness ==
    /\ ApplyInProgress
    /\ call.create_backup
    /\ engState = "Mutating"
    /\ written # {}
    /\ BackupComplete

\* ------------------------------------------------------------------------
\* C4
\* ------------------------------------------------------------------------

\* a validate_fixes call (either transport) is in progress
Validating == call.op = "validate_fixes"

C5_CommitEqualsDryApply ==
    (request.op = "apply" /\ engState = "Committed") =>
        /\ ~HasOverlap(fixset)
        /\ \A i \in DOMAIN fixset : ~IsStale(snapshot[fixset[i].file_path], fixset[i])
        /\ files = DryResult(snapshot, fixset)

\* a committed apply of two insertions at the same point of one file: the
\* replacement of the first edit comes first
C5_Witness ==
    /\ request.op = "apply"
    /\ engState = "Committed"
    /\ Len(fixset) = 2
    /\ fixset[1].file_path = fixset[2].file_path
    /\ fixset[1].start = fixset[2].start
    /\ fixset[1].end = fixset[1].start
    /\ files[fixset[1].file_path] = <<"a", "r1", "r2", "b">>

\* ------------------------------------------------------------------------
\* C6
\* ------------------------------------------------------------------------

\* the request both transports are to hand the engine for the call
ExpectedRequest ==
    [op            |-> IF call.op = "apply_fixes" THEN "apply" ELSE "validate",
     project_path  |-> call.project_path,
     readable      |-> TRUE,
     fixes         |-> fixset,
     create_backup |-> call.op = "apply_fixes" /\ call.create_backup]

\* C6: both transports hand the engine the same request: RustAiTool runs
\* the binary with subcommand apply, the project path and a --fixes file
\* holding the fixes, with --backup present if and only if create_backup is
\* true; RustAiToolClient posts project_path, fixes and the same
\* create_backup to /api/apply; validate_fixes uses validate (/api/validate)
\* and never conveys a backup request.
C6_SameRequest ==
    /\ (pc = "running" /\ call.op = "apply_fixes") =>
          /\ cmd = <<tool.path, "--config", ConfigPath, "apply",
                     call.project_path, "--fixes", fixesPath>>
                     \o (IF call.create_backup THEN <<"--backup">> ELSE <<>>)
          /\ TmpExists(tmp, fixesPath)
          /\ TmpText(tmp, fixesPath) = JsonDump(fixset)
    /\ (pc = "running" /\ call.op = "validate_fixes") =>
          /\ cmd = <<tool.path, "--config", ConfigPath, "validate",
                     call.project_path, "--fixes", fixesPath>>
          /\ TmpExists(tmp, fixesPath)
          /\ TmpText(tmp, fixesPath) = JsonDump(fixset)
    /\ (pc = "http" /\ call.op = "apply_fixes") =>
          /\ httpReq.method = "POST"
          /\ httpReq.endpoint = "/api/apply"
          /\ httpReq.keys = {"project_path", "fixes", "create_backup"}
          /\ httpReq.project_path = call.project_path
          /\ httpReq.fixes = fixset
          /\ httpReq.create_backup = call.create_backup
    /\ (pc = "http" /\ call.op = "validate_fixes") =>
          /\ httpReq.method = "POST"
          /\ httpReq.endpoint = "/api/validate"
          /\ httpReq.keys = {"project_path", "fixes"}
          /\ httpReq.project_path = call.project_path
          /\ httpReq.fixes = fixset
    /\ (pc \in {"running", "http"} /\ call.op \in {"apply_fixes", "validate_fixes"})
          => request = ExpectedRequest

\* the server is applying fixes the client posted with create_backup false
C6_Witness ==
    /\ pc = "http"
    /\ call.op = "apply_fixes"
    /\ ~call.create_backup
    /\ engState = "Mutating"
    /\ ~backup.taken

\* ------------------------------------------------------------------------
\* C7
\* ------------------------------------------------------------------------

\* a step of a RustAiTool method itself: a call starts, fails before the
\* binary runs, or returns
ToolStep ==
    \/ pc = "idle" /\ pc' \in {"idle", "running"}
    \/ pc = "running" /\ pc' = "idle"

\* the temporary directory changes by the creation of one new file or the
\* deletion of the fixes file of the call that returns
OwnTmpChange ==
    \/ tmp' = tmp
    \/ /\ pc = "idle"
       /\ \E t \in tmp' : ~TmpExists(tmp, t.name) /\ tmp' = tmp \cup {t}
    \/ pc = "running" /\ fixesPath # "" /\ tmp' = Unlink(tmp, fixesPath)

\* C7: the wrapper itself never reads, writes or deletes a project file:
\* across any sequence of RustAiTool calls the only filesystem changes the
\* wrapper makes are the creation and deletion of its own temporary fixes
\* file; every project change comes from the invoked binary.
C7_WrapperFrame ==
    [][/\ ToolStep => files' = files /\ OwnTmpChange
       /\ files' # files => pc \in {"running", "http"} /\ pc' = pc]_vars

\* an apply_fixes call has returned: the binary changed the project, the
\* call's fixes file is gone and the file an earlier call left is still there
C7_Witness ==
    /\ pc = "idle"
    /\ ret.api = "tool"
    /\ ret.kind = "value"
    /\ files # [f \in Paths |-> RefContent]
    /\ Cardinality(tmp) = 1

\* ------------------------------------------------------------------------
\* C8
\* ------------------------------------------------------------------------

\* C8: failures of the binary are always surfaced: _run_command returns the
\* stdout only when the exit code is 0; for every non-zero exit code it
\* raises RuntimeError carrying the exit code and stderr (stdout when stderr
\* is empty), so a method returns a parsed result only for an exit-0 run.
C8_FailureSurfaced ==
    ret.api = "tool" =>
        /\ ret.kind = "value" => ret.exit = 0
        /\ ret.exit > 0 =>
              /\ ret.kind = "RuntimeError"
              /\ ret.code = ret.exit
              /\ ret.msg = IF ret.stderrEmpty THEN "stdout" ELSE "stderr"
        /\ ret.kind = "RuntimeError" => ret.exit > 0

\* a partial failure of the binary (exit 1, empty stderr) was raised
C8_Witness ==
    /\ ret.api = "tool"
    /\ ret.kind = "RuntimeError"
    /\ ret.code = 1
    /\ ret.msg = "stdout"
    /\ files # [f \in Paths |-> RefContent]

\* ------------------------------------------------------------------------
\* C9
\* ------------------------------------------------------------------------

\* C9: no temporary fixes file is leaked: the file a call of validate_fixes,
\* apply_fixes or create_github_pr creates exists for the whole run of the
\* binary and is deleted by the time the call returns or raises, on every
\* exit path, a failure while writing the fixes into the file included.
C9_NoTmpLeak ==
    /\ (pc = "running"
          /\ call.op \in {"validate_fixes", "apply_fixes", "create_github_pr"})
         => fixesPath # "" /\ TmpExists(tmp, fixesPath)
    /\ pc \in {"idle", "http"} => tmp = {}

====
